---- MODULE Spec2Model ----
(***************************************************************************)
(* The /gemini_request handler of app.py (the "Request Dispatcher"): input *)
(* filtering, persona selection, the response cache and the rate limiter,  *)
(* run by concurrent request threads against a wall clock.                 *)
(*                                                                         *)
(* Text is a sequence of one-character strings.  Time is counted in ticks, *)
(* TicksPerSecond ticks to a second; time.time() reads the variable now.   *)
(***************************************************************************)
EXTENDS Integers, Sequences, FiniteSets, TLC

\* ------------------------------------------------------------------ bounds
\* Clock resolution: ticks per second.
TicksPerSecond == 2
\* time.time() at process start, in seconds (last_request_time starts at 0).
BootSeconds == 1
\* The clock is observed for Window ticks after boot and, in the runs that
\* reach cache expiry, from one tick before boot + CACHE_EXPIRY_SECONDS to
\* Slack ticks after it.
Window == 2
Slack == 1
\* Request threads that may be in flight at once.
MaxThreads == 2
\* Rows test_db_insert and create_round_record may add before the run ends.
MaxTestRows == 1
MaxRounds == 1

\* ------------------------------------------------------- program constants
REQUEST_LIMIT_SECONDS == 1
CACHE_EXPIRY_SECONDS == 60 * 5
ROUND_START_TEMPERATURE == 25   \* 0.25, in hundredths
generation_config == [temperature |-> 35, top_p |-> 95, top_k |-> 40,
                      max_output_tokens |-> 150]

ROUND_START_PREFIX ==
  <<"R", "o", "u", "n", "d", " ", "s", "t", "a", "r", "t", " ",
    "i", "n", "i", "t", "i", "a", "t", "e", "d">>
GREETING_WORDS == { <<"h", "i">>, <<"h", "e", "l", "l", "o">>, <<"h", "e", "y">> }
GREETING_REPLY ==
  <<"S", "E", "R", "A", "P", "H", ":", " ",
    "G", "r", "e", "e", "t", "i", "n", "g", "s", ".">>
GEMINI_ERROR_TEXT ==
  <<"E", "r", "r", "o", "r", " ", "c", "o", "m", "m", "u", "n", "i", "c", "a",
    "t", "i", "n", "g", " ", "w", "i", "t", "h", " ",
    "G", "e", "m", "i", "n", "i", " ", "A", "P", "I">>
NO_DATA_MESSAGE ==
  <<"N", "o", " ", "d", "a", "t", "a", " ", "p", "r", "o", "v", "i", "d", "e",
    "d", " ", "i", "n", " ", "r", "e", "q", "u", "e", "s", "t", " ",
    "b", "o", "d", "y">>
MISSING_FIELDS_PREFIX ==
  <<"M", "i", "s", "s", "i", "n", "g", " ", "r", "e", "q", "u", "i", "r", "e",
    "d", " ", "f", "i", "e", "l", "d", "s", ":", " ">>
INTERNAL_ERROR_MESSAGE ==
  <<"I", "n", "t", "e", "r", "n", "a", "l", " ", "s", "e", "r", "v", "e", "r",
    " ", "e", "r", "r", "o", "r">>
\* The two persona prompts, by name (their text is opaque to the handler).
system_prompt == "system_prompt"
round_start_system_prompt == "round_start_system_prompt"

\* ------------------------------------------------------------ str methods
Whitespace == {" ", "\t", "\n", "\r"}

RECURSIVE lstrip(_)
lstrip(s) == IF s # <<>> /\ Head(s) \in Whitespace THEN lstrip(Tail(s)) ELSE s

RECURSIVE rstrip(_)
rstrip(s) ==
  IF s # <<>> /\ s[Len(s)] \in Whitespace THEN rstrip(SubSeq(s, 1, Len(s) - 1))
  ELSE s

\* str.strip()
strip(s) == rstrip(lstrip(s))

UpperCase == <<"A", "B", "C", "D", "E", "F", "G", "H", "I", "J", "K", "L", "M",
               "N", "O", "P", "Q", "R", "S", "T", "U", "V", "W", "X", "Y", "Z">>
LowerCase == <<"a", "b", "c", "d", "e", "f", "g", "h", "i", "j", "k", "l", "m",
               "n", "o", "p", "q", "r", "s", "t", "u", "v", "w", "x", "y", "z">>
LowerChar(c) ==
  IF \E i \in 1..Len(UpperCase) : UpperCase[i] = c
  THEN LowerCase[CHOOSE i \in 1..Len(UpperCase) : UpperCase[i] = c]
  ELSE c

\* str.lower()
lower(s) == [i \in 1..Len(s) |-> LowerChar(s[i])]

\* str.startswith(prefix)
startswith(s, prefix) ==
  Len(s) >= Len(prefix) /\ SubSeq(s, 1, Len(prefix)) = prefix


\* Python's ", ".join(fields)
RECURSIVE join(_)
join(fields) ==
  IF fields = <<>> THEN <<>>
  ELSE IF Len(fields) = 1 THEN Head(fields)
  ELSE Head(fields) \o <<",", " ">> \o join(Tail(fields))

\* ------------------------------------------------------------ time in ticks
Ticks(seconds) == seconds * TicksPerSecond
Boot == Ticks(BootSeconds)
\* The instants at which the clock is observed.
NearInstants == { Boot + k : k \in 0..Window }
FarInstants == { Boot + Ticks(CACHE_EXPIRY_SECONDS) + k : k \in (0 - 1)..Slack }
Instants == NearInstants \cup FarInstants

\* ------------------------------------------------------------ request data
USER_INPUT == <<"u", "s", "e", "r", "_", "i", "n", "p", "u", "t">>
OTHER_FIELD == <<"x">>
StrValue(s) == [type |-> "str", text |-> s]
IntValue == [type |-> "int", text |-> <<>>]
\* request.get_json() results: None, {}, {"x": ...}, {"user_input": value}
NullBody == [present |-> FALSE, fields |-> {}, user_input |-> IntValue]
EmptyObject == [present |-> TRUE, fields |-> {}, user_input |-> IntValue]
OtherObject == [present |-> TRUE, fields |-> {OTHER_FIELD}, user_input |-> IntValue]
InputObject(v) == [present |-> TRUE, fields |-> {USER_INPUT}, user_input |-> v]

RoundStartText == ROUND_START_PREFIX
RoundStartText2 == ROUND_START_PREFIX \o <<" ", "2">>
TestMessage == <<"T", "e", "s", "t", " ", "m", "e", "s", "s", "a", "g", "e">>
\* The round-start phrase not at position 0.
EmbeddedRoundStart == <<"x", " ">> \o ROUND_START_PREFIX
\* The user_input strings the clients send: one of each kind ...
CoreInputs ==
  { <<" ", "\n">>,
    <<" ", "h", "i", " ">>,
    RoundStartText,
    <<" ">> \o RoundStartText2 \o <<"\n">>,
    TestMessage }
\* ... and the variants in letter case and length.
UserInputs ==
  CoreInputs \cup
  { <<>>,
    <<"H", "E", "Y">>,
    <<"h", "e", "l", "l", "o">>,
    lower(RoundStartText),
    EmbeddedRoundStart,
    <<" ", "H", "E", "L", "L", "O">> }
Bodies ==
  {NullBody, EmptyObject, OtherObject, InputObject(IntValue)} \cup
  { InputObject(StrValue(s)) : s \in UserInputs }
\* The request bodies of the concurrent runs.
ConcurrentBodies ==
  {NullBody, InputObject(IntValue)} \cup
  { InputObject(StrValue(s)) : s \in CoreInputs }

\* response.text values the completion capability may produce.
Completions ==
  { <<" ", "R", "o", "u", "n", "d", " ", "o", "n", "e", ".", "\n">>,
    <<"B", "e", "g", "i", "n", ".">> }
\* Exceptions generate_content / response.text may raise.
GeminiErrors == {"ResourceExhausted", "ValueError"}

\* ------------------------------------------------------------------ state
VARIABLES
  now,                \* the wall clock, time.time()
  last_request_time,  \* gemini_utils.last_request_time
  response_cache,     \* gemini_utils.response_cache: key -> entry
  thread,             \* the request threads in flight: position and locals
  returned,           \* the response the latest step returned, if it returned one
  committed,          \* history: per key, what the last cache write stored
  lastInvoke,         \* history: the latest round-start completion invocation
  raced               \* history: two dispatches both passed the throttle check
                      \* before either wrote last_request_time

\* The relational store and the database handlers.
VARIABLES
  games,              \* table games: game_id -> status, the committed rows
  test_rows,          \* rows of games inserted without a game_id ('running')
  rounds,             \* number of committed rows of table rounds
  issued,             \* the uuid4 values handed out so far
  held,               \* connections obtained and not yet released
  db,                 \* the database operation in flight: position and locals
  db_returned         \* what the latest database step returned, if it returned

dbvars == <<games, test_rows, rounds, issued, held, db, db_returned>>

vars == <<now, last_request_time, response_cache, thread, returned,
          committed, lastInvoke, raced, dbvars>>

Threads == 1..MaxThreads

NoEntry == [present |-> FALSE, response |-> <<>>, timestamp |-> 0]
Entry(response, timestamp) ==
  [present |-> TRUE, response |-> response, timestamp |-> timestamp]
NoInvoke == [valid |-> FALSE, at |-> 0, key |-> <<>>]
\* History of a cache write: what was stored, when, and the number of
\* completion invocations of the dispatch that stored it.
NoCommit == [present |-> FALSE, response |-> <<>>, timestamp |-> 0,
             invocations |-> 0]
Commit(response, timestamp, invocations) ==
  [present |-> TRUE, response |-> response, timestamp |-> timestamp,
   invocations |-> invocations]

\* Faulty variant: the lookup takes any entry whose key shares the first
\* Len("Round start initiated") characters with the text.
getByPrefix(cache, key) ==
  LET PrefixOf(x) ==
        IF Len(x) >= Len(ROUND_START_PREFIX)
        THEN SubSeq(x, 1, Len(ROUND_START_PREFIX)) ELSE x
      same == { k \in DOMAIN cache : PrefixOf(k) = PrefixOf(key) }
  IN IF same = {} THEN NoEntry ELSE cache[CHOOSE k \in same : TRUE]

\* dict.get(key)
get(cache, key) == IF key \in DOMAIN cache THEN cache[key] ELSE NoEntry

IdleThread ==
  [pc |-> "idle", data |-> NullBody, user_text |-> <<>>,
   current_system_prompt |-> "none", current_temperature |-> 0,
   cached_response_data |-> NoEntry, current_time |-> 0,
   time_since_last_request |-> 0,
   status |-> 0, body |-> <<>>, content |-> "none",
   path |-> "none", gemini_error |-> "none",
   invocations |-> 0, cache_writes |-> 0, began_at |-> 0, prior |-> NoCommit,
   replaced |-> NoEntry, timestamp_writes |-> 0]

\* The game ids: the uuid4 strings game_start_signal generates, and the
\* literal the client sends when it has none.
Uuids == {"uuid-a", "uuid-b"}
UNKNOWN_GAME_ID == "UNKNOWN_GAME_ID"
NoRows == [g \in {} |-> "none"]

\* No database operation in flight. conn and cur are the locals of the
\* operation (FALSE is None); staged is the statement of its open
\* transaction; before, acquired, released and raised are history.
DbIdle ==
  [name |-> "none", pc |-> "idle", valid |-> FALSE, game_id |-> "none",
   conn |-> FALSE, cur |-> FALSE, staged |-> "none", rowcount |-> 0,
   found |-> FALSE, committed |-> FALSE,
   status |-> 0, kind |-> "none", value |-> "none",
   before |-> NoRows, acquired |-> 0, released |-> 0, raised |-> FALSE]

Init ==
  /\ games = NoRows
  /\ test_rows = 0
  /\ rounds = 0
  /\ issued = {}
  /\ held = 0
  /\ db = DbIdle
  /\ db_returned = DbIdle
  /\ now = Boot
  /\ last_request_time = 0
  /\ response_cache = [k \in {} |-> NoEntry]
  /\ thread = [t \in Threads |-> IdleThread]
  /\ returned = IdleThread
  /\ committed = [k \in {} |-> NoCommit]
  /\ lastInvoke = NoInvoke
  /\ raced = FALSE


\* ---------------------------------------------------------------- helpers
\* Faulty variant: only the presence of data is checked, not the fields.
validate_request_dataLenient(data, required_fields) ==
  IF ~data.present \/ data.fields = {}
  THEN [valid |-> FALSE, message |-> NO_DATA_MESSAGE]
  ELSE [valid |-> TRUE, message |-> <<"V", "a", "l", "i", "d">>]

\* Faulty variant: the membership test inverted, present fields are "missing".
validate_request_dataInverted(data, required_fields) ==
  IF ~data.present \/ data.fields = {}
  THEN [valid |-> FALSE, message |-> NO_DATA_MESSAGE]
  ELSE LET missing_fields ==
             SelectSeq(required_fields, LAMBDA field : field \in data.fields)
       IN IF missing_fields # <<>>
          THEN [valid |-> FALSE,
                message |-> MISSING_FIELDS_PREFIX \o join(missing_fields)]
          ELSE [valid |-> TRUE, message |-> <<"V", "a", "l", "i", "d">>]

\* validate_request_data(data, required_fields): (valid, message)
validate_request_data(data, required_fields) ==
  IF ~data.present \/ data.fields = {}
  THEN [valid |-> FALSE, message |-> NO_DATA_MESSAGE]
  ELSE LET missing_fields ==
             SelectSeq(required_fields, LAMBDA field : field \notin data.fields)
       IN IF missing_fields # <<>>
          THEN [valid |-> FALSE,
                message |-> MISSING_FIELDS_PREFIX \o join(missing_fields)]
          ELSE [valid |-> TRUE, message |-> <<"V", "a", "l", "i", "d">>]

\* A thread that returns (body, status, headers) from the handler.
Respond(th, status, body, content, path) ==
  [th EXCEPT !.pc = "done", !.status = status, !.body = body,
             !.content = content, !.path = path]

\* Faulty variant: the exception text is sent as the message.
handle_api_errorDetail(th, error) ==
  Respond(th, 500, <<error>>, "application/json", "internal_error")

\* handle_api_error(error, context): the jsonify'd message and 500
handle_api_error(th, error) ==
  Respond(th, 500, INTERNAL_ERROR_MESSAGE, "application/json", "internal_error")

\* Faulty variant: the exception text is appended to the error text.
GeminiErrorResponseDetail(th, error) ==
  [Respond(th, 500, GEMINI_ERROR_TEXT \o <<":", " ", error>>, "text/plain",
           th.path)
     EXCEPT !.gemini_error = error]

\* The except-branches around generate_content (round start and general).
GeminiErrorResponse(th, error) ==
  [Respond(th, 500, GEMINI_ERROR_TEXT, "text/plain", th.path)
     EXCEPT !.gemini_error = error]

\* Faulty variant: the test is "user_text is None", which a string never passes.
IsEmptyNone(user_text) == FALSE

\* not user_text
IsEmpty(user_text) == user_text = <<>>

\* Faulty variant: the length test is "<= 5".
IsTrivialGreetingInclusive(user_text) ==
  Len(user_text) <= 5 /\ lower(user_text) \in GREETING_WORDS

\* Faulty variant: the comparison without lower().
IsTrivialGreetingCased(user_text) ==
  Len(user_text) < 5 /\ user_text \in GREETING_WORDS

\* len(user_text) < 5 and user_text.lower() in ["hi", "hello", "hey"]
IsTrivialGreeting(user_text) ==
  Len(user_text) < 5 /\ lower(user_text) \in GREETING_WORDS

\* Faulty variant: the phrase is looked for anywhere in the text.
IsRoundStartAnywhere(user_text) ==
  \E i \in 1..(Len(user_text) - Len(ROUND_START_PREFIX) + 1) :
    SubSeq(user_text, i, i + Len(ROUND_START_PREFIX) - 1) = ROUND_START_PREFIX

\* Faulty variant: the prefix test in any letter case.
IsRoundStartAnyCase(user_text) ==
  startswith(lower(user_text), lower(ROUND_START_PREFIX))

\* user_text.startswith("Round start initiated")
IsRoundStart(user_text) == startswith(user_text, ROUND_START_PREFIX)

\* Faulty variant: the cache is never consulted.
CacheHitNever(cached_response_data, t) == FALSE

\* Faulty variant: an entry aged exactly CACHE_EXPIRY_SECONDS still counts.
CacheHitInclusive(cached_response_data, t) ==
  /\ cached_response_data.present
  /\ t - cached_response_data.timestamp <= Ticks(CACHE_EXPIRY_SECONDS)

\* Faulty variant: the age test inverted.
CacheHitInverted(cached_response_data, t) ==
  /\ cached_response_data.present
  /\ t - cached_response_data.timestamp > Ticks(CACHE_EXPIRY_SECONDS)

\* cached_response_data and (time.time() - timestamp < CACHE_EXPIRY_SECONDS)
CacheHit(cached_response_data, t) ==
  /\ cached_response_data.present
  /\ t - cached_response_data.timestamp < Ticks(CACHE_EXPIRY_SECONDS)

\* time_since_last_request < REQUEST_LIMIT_SECONDS
Throttled(time_since_last_request) ==
  time_since_last_request < Ticks(REQUEST_LIMIT_SECONDS)

\* Faulty variant: the operands are dropped, the sleep lasts the elapsed time.
SleepDurationElapsed(time_since_last_request) ==
  time_since_last_request

\* REQUEST_LIMIT_SECONDS - time_since_last_request
SleepDuration(time_since_last_request) ==
  Ticks(REQUEST_LIMIT_SECONDS) - time_since_last_request

\* Faulty variant: the store first drops the entries that have expired.
StoreResponseEvicting(cache, cache_key, response, t) ==
  LET kept == { k \in DOMAIN cache :
                  t - cache[k].timestamp < Ticks(CACHE_EXPIRY_SECONDS) }
  IN (cache_key :> Entry(response, t)) @@ [k \in kept |-> cache[k]]

\* Faulty variant: setdefault, an existing entry is kept.
StoreResponseKeepOld(cache, cache_key, response, t) ==
  IF cache_key \in DOMAIN cache THEN cache
  ELSE (cache_key :> Entry(response, t)) @@ cache

\* Faulty variant: an existing entry is updated in place, the response only.
StoreResponseTorn(cache, cache_key, response, t) ==
  IF cache_key \in DOMAIN cache
  THEN [cache EXCEPT ![cache_key].response = response]
  ELSE (cache_key :> Entry(response, t)) @@ cache

\* response_cache[cache_key] = {'response': ..., 'timestamp': time.time()}
StoreResponse(cache, cache_key, response, t) ==
  (cache_key :> Entry(response, t)) @@ cache

\* Variant: the clock is read again for the write.
StampedTimeNow(current_time, t) == t

\* last_request_time = current_time
StampedTime(current_time, t) == current_time

\* create_dynamic_gemini_model(temperature): the generation config it builds
create_dynamic_gemini_model(temperature) ==
  [generation_config EXCEPT !.temperature = temperature]

InFlight(th) == th.pc # "idle"

\* Faulty variant: the sleep lasts the cache expiry on top of the remainder.
WakeAtLate(th) ==
  th.current_time + SleepDuration(th.time_since_last_request)
    + Ticks(CACHE_EXPIRY_SECONDS)

\* The instant at which a sleeping thread's time.sleep is over.
WakeAt(th) == th.current_time + SleepDuration(th.time_since_last_request)

\* Faulty variant: lines 180-185 run under a lock, a thread waits at the
\* throttle check while another is between its check and its write.
RunnableLocked(t) ==
  thread[t].pc = "throttle"
    => \A u \in Threads : u # t => thread[u].pc \notin {"sleep", "stamp"}

\* Faulty variant: the sleep holds the whole process up (a busy server of one thread).
RunnableOneThread(t) ==
  \A u \in Threads : u # t => thread[u].pc # "sleep"

\* Each request runs in a thread of its own (app.run serves threaded) and
\* time.sleep suspends only the calling thread: a thread is never held up
\* by another thread's sleep.
Runnable(t) == TRUE
RoundStartPath(th) == th.path = "round_start"

\* ---------------------------------------------------------------- actions
\* Lines 134-185 up to the first shared-state step: parse, validate, strip,
\* filter, select the persona and, for a round start, look the cache up.
BeginThread(data) ==
  LET fresh == [IdleThread EXCEPT !.data = data, !.began_at = now]
      v == validate_request_data(data, <<USER_INPUT>>)
  IN IF ~v.valid
     THEN Respond(fresh, 400, v.message, "text/plain", "bad_request")
     ELSE IF data.user_input.type # "str"
     THEN handle_api_error(fresh, "AttributeError")
     ELSE
       LET user_text == strip(data.user_input.text)
           th == [fresh EXCEPT !.user_text = user_text]
       IN IF IsEmpty(user_text)
          THEN Respond(th, 200, <<>>, "text/plain", "empty")
          ELSE IF IsTrivialGreeting(user_text)
          THEN Respond(th, 200, GREETING_REPLY, "text/plain", "greeting")
          ELSE IF IsRoundStart(user_text)
          THEN
            LET cached_response_data == get(response_cache, user_text)
                rs == [th EXCEPT
                         !.current_system_prompt = round_start_system_prompt,
                         !.current_temperature = ROUND_START_TEMPERATURE,
                         !.cached_response_data = cached_response_data,
                         !.prior = IF user_text \in DOMAIN committed
                                   THEN committed[user_text] ELSE NoCommit]
            IN IF CacheHit(cached_response_data, now)
               THEN Respond(rs, 200, cached_response_data.response,
                            "text/plain", "cache_hit")
               ELSE [rs EXCEPT !.pc = "throttle", !.path = "round_start"]
          ELSE [th EXCEPT
                  !.began_at = 0,
                  !.current_system_prompt = system_prompt,
                  !.current_temperature = generation_config.temperature,
                  !.pc = "call", !.path = "general"]

Begin(t, data) ==
  /\ Runnable(t)
  /\ ~InFlight(thread[t])
  /\ \A u \in Threads : u < t => InFlight(thread[u])
  /\ LET th == BeginThread(data)
     IN IF th.pc = "done"
        THEN returned' = th /\ UNCHANGED thread
        ELSE thread' = [thread EXCEPT ![t] = th] /\ returned' = IdleThread
  /\ UNCHANGED <<now, last_request_time, response_cache, committed, lastInvoke, raced>>
  /\ UNCHANGED dbvars

\* Lines 180-184: read the clock and last_request_time, decide to sleep.
\* cached_response_data is not read again and is dropped; current_time and
\* time_since_last_request are kept until the completion call is sent.
ThrottleCheck(t) ==
  /\ Runnable(t)
  /\ thread[t].pc = "throttle"
  /\ LET current_time == now
         time_since_last_request == current_time - last_request_time
     IN /\ thread' = [thread EXCEPT
             ![t].current_time = current_time,
             ![t].time_since_last_request = time_since_last_request,
             ![t].cached_response_data = NoEntry,
             ![t].prior = NoCommit,
             ![t].began_at = 0,
             ![t].pc = IF Throttled(time_since_last_request)
                       THEN "sleep" ELSE "stamp"]
        /\ raced' =
             ( \/ raced
               \/ /\ ~Throttled(time_since_last_request)
                  /\ \E u \in Threads \ {t} :
                       /\ thread[u].pc = "stamp"
                       /\ ~Throttled(thread[u].time_since_last_request) )
  /\ returned' = IdleThread
  /\ UNCHANGED <<now, last_request_time, response_cache, committed, lastInvoke>>
  /\ UNCHANGED dbvars

\* Faulty variant: the dispatch also writes the clock to last_request_time
\* when its sleep is over.
WakeUpStamping(t) ==
  /\ Runnable(t)
  /\ thread[t].pc = "sleep"
  /\ now >= WakeAt(thread[t])
  /\ last_request_time' = now
  /\ thread' = [thread EXCEPT ![t].pc = "stamp", ![t].timestamp_writes = @ + 1]
  /\ returned' = IdleThread
  /\ UNCHANGED <<now, response_cache, committed, lastInvoke, raced>>
  /\ UNCHANGED dbvars

\* Line 184: time.sleep returns once the duration has passed.
WakeUp(t) ==
  /\ Runnable(t)
  /\ thread[t].pc = "sleep"
  /\ now >= WakeAt(thread[t])
  /\ thread' = [thread EXCEPT ![t].pc = "stamp"]
  /\ returned' = IdleThread
  /\ UNCHANGED <<now, last_request_time, response_cache, committed, lastInvoke, raced>>
  /\ UNCHANGED dbvars

\* Faulty variant: the write sits in an else branch, a dispatch that slept
\* skips it.
StampUnlessSlept(t) ==
  /\ Runnable(t)
  /\ thread[t].pc = "stamp"
  /\ IF Throttled(thread[t].time_since_last_request)
     THEN /\ thread' = [thread EXCEPT ![t].pc = "call"]
          /\ UNCHANGED last_request_time
     ELSE /\ last_request_time' = StampedTime(thread[t].current_time, now)
          /\ thread' = [thread EXCEPT ![t].pc = "call",
                                       ![t].timestamp_writes = @ + 1]
  /\ returned' = IdleThread
  /\ UNCHANGED <<now, response_cache, committed, lastInvoke, raced>>
  /\ UNCHANGED dbvars

\* Line 185: last_request_time = current_time
Stamp(t) ==
  /\ Runnable(t)
  /\ thread[t].pc = "stamp"
  /\ last_request_time' = StampedTime(thread[t].current_time, now)
  /\ thread' = [thread EXCEPT ![t].pc = "call", ![t].timestamp_writes = @ + 1]
  /\ returned' = IdleThread
  /\ UNCHANGED <<now, response_cache, committed, lastInvoke, raced>>
  /\ UNCHANGED dbvars

\* Lines 189-197 and 221-228: build the model, send generate_content.
Invoke(t) ==
  /\ Runnable(t)
  /\ thread[t].pc = "call"
  /\ thread' = [thread EXCEPT
       ![t].pc = "wait",
       ![t].current_time = 0,
       ![t].time_since_last_request = 0,
       ![t].invocations = @ + 1]
  /\ lastInvoke' = IF RoundStartPath(thread[t])
                   THEN [valid |-> TRUE, at |-> now, key |-> thread[t].user_text]
                   ELSE lastInvoke
  /\ returned' = IdleThread
  /\ UNCHANGED <<now, last_request_time, response_cache, committed, raced>>
  /\ UNCHANGED dbvars

\* Lines 198-211 and 229-231: the completion returns text.
CompleteOk(t, text) ==
  /\ Runnable(t)
  /\ thread[t].pc = "wait"
  /\ LET gemini_text_response == strip(text)
         th == thread[t]
     IN IF RoundStartPath(th)
        THEN /\ response_cache' = StoreResponse(response_cache, th.user_text,
                                                gemini_text_response, now)
             /\ committed' =
                  (th.user_text :>
                     Commit(gemini_text_response, now, th.invocations))
                  @@ committed
             /\ returned' =
                  [Respond(th, 200, gemini_text_response, "text/plain", th.path)
                     EXCEPT !.cache_writes = @ + 1,
                            !.replaced = get(response_cache, th.user_text)]
        ELSE /\ returned' =
                  Respond(th, 200, gemini_text_response, "text/plain", th.path)
             /\ UNCHANGED <<response_cache, committed>>
  /\ thread' = [thread EXCEPT ![t] = IdleThread]
  /\ UNCHANGED <<now, last_request_time, lastInvoke, raced>>
  /\ UNCHANGED dbvars

\* Faulty variant: a failed completion call removes the entry of its key.
CompleteErrorEvicting(t, error) ==
  /\ Runnable(t)
  /\ thread[t].pc = "wait"
  /\ returned' = GeminiErrorResponse(thread[t], error)
  /\ thread' = [thread EXCEPT ![t] = IdleThread]
  /\ response_cache' =
       [k \in DOMAIN response_cache \ {thread[t].user_text} |-> response_cache[k]]
  /\ UNCHANGED <<now, last_request_time, committed, lastInvoke, raced>>
  /\ UNCHANGED dbvars

\* Faulty variant: the first failure of the completion call is retried.
CompleteErrorRetry(t, error) ==
  /\ Runnable(t)
  /\ thread[t].pc = "wait"
  /\ IF thread[t].invocations < 2
     THEN /\ thread' = [thread EXCEPT ![t].pc = "call"]
          /\ returned' = IdleThread
     ELSE /\ returned' = GeminiErrorResponse(thread[t], error)
          /\ thread' = [thread EXCEPT ![t] = IdleThread]
  /\ UNCHANGED <<now, last_request_time, response_cache, committed, lastInvoke, raced>>
  /\ UNCHANGED dbvars

\* Lines 213-215 and 233-235: the completion raises.
CompleteError(t, error) ==
  /\ Runnable(t)
  /\ thread[t].pc = "wait"
  /\ returned' = GeminiErrorResponse(thread[t], error)
  /\ thread' = [thread EXCEPT ![t] = IdleThread]
  /\ UNCHANGED <<now, last_request_time, response_cache, committed, lastInvoke, raced>>
  /\ UNCHANGED dbvars

\* A thread between two blocking points: the handler's own code, which runs
\* in less than a tick.  Time passes while threads sleep, wait for the
\* completion call or are idle.
Computing(th) == th.pc \in {"throttle", "stamp", "call"}

\* The wall clock moves on; time.sleep returns at the tick its duration ends,
\* so the clock does not pass the end of a sleep while the thread sleeps on.
Advance(instant) ==
  /\ \A t \in Threads : ~Computing(thread[t])
  /\ \A t \in Threads : thread[t].pc = "sleep" => instant <= WakeAt(thread[t])
  /\ instant > now
  /\ now' = instant
  /\ returned' = IdleThread
  /\ UNCHANGED <<last_request_time, response_cache, thread, committed, lastInvoke, raced>>
  /\ UNCHANGED dbvars

Step(t) ==
  \/ ThrottleCheck(t)
  \/ WakeUp(t)
  \/ Stamp(t)
  \/ Invoke(t)
  \/ \E text \in Completions : CompleteOk(t, text)
  \/ \E error \in GeminiErrors : CompleteError(t, error)

\* Concurrent request threads, observed for Window ticks.
Next ==
  \/ \E t \in Threads, data \in ConcurrentBodies : Begin(t, data)
  \/ \E t \in Threads : Step(t)
  \/ \E instant \in NearInstants : Advance(instant)

Spec == Init /\ [][Next]_vars

\* (Begin takes the free thread of lowest index: the threads are interchangeable.)

\* One request at a time: a dispatch begins only after the others returned.
Quiet == \A t \in Threads : ~InFlight(thread[t])
SeqBegin(t, data) == Quiet /\ Begin(t, data)

SeqNext ==
  \/ \E t \in Threads, data \in Bodies : SeqBegin(t, data)
  \/ \E t \in Threads : Step(t)
  \/ \E instant \in Instants : Advance(instant)

SeqSpec == Init /\ [][SeqNext]_vars

\* ------------------------------------------------- the game-session store
\* The state of the request handler, which the database handlers leave alone.
gvars == <<now, last_request_time, response_cache, thread, returned,
           committed, lastInvoke, raced>>

\* The operations that obtain a connection; the first three validate a
\* request body first.
Validated == {"game_start_signal", "game_status_update", "game_cleanup"}
DbOperations ==
  Validated \cup
  {"test_db_connection", "test_db_insert", "debug_info", "create_round_record"}

\* The game_id an operation works on: a new uuid4 for game_start_signal,
\* the request's game_id for the update and the cleanup, the argument of
\* create_round_record.
GameIdInputs(name, valid) ==
  IF ~valid THEN {"none"}
  ELSE IF name = "game_start_signal" THEN Uuids \ issued
  ELSE IF name \in {"game_status_update", "game_cleanup", "create_round_record"}
       THEN Uuids \cup {UNKNOWN_GAME_ID}
  ELSE {"none"}

\* An operation that returns status, kind and value.
DbRespond(d, status, kind, value) ==
  [d EXCEPT !.status = status, !.kind = kind, !.value = value]

\* Faulty variant: an UPDATE that matches no row inserts one.
ApplyStagedUpsert(rows, staged, game_id) ==
  CASE staged = "insert" ->
         [g \in DOMAIN rows \cup {game_id} |->
            IF g = game_id THEN "starting" ELSE rows[g]]
    [] staged = "update" ->
         [g \in DOMAIN rows \cup {game_id} |->
            IF g = game_id THEN "active" ELSE rows[g]]
    [] staged = "delete" ->
         [g \in DOMAIN rows \ {game_id} |-> rows[g]]
    [] OTHER -> rows

\* Faulty variant: the DELETE has no WHERE clause.
ApplyStagedDeleteAll(rows, staged, game_id) ==
  CASE staged = "insert" ->
         [g \in DOMAIN rows \cup {game_id} |->
            IF g = game_id THEN "starting" ELSE rows[g]]
    [] staged = "update" ->
         [g \in DOMAIN rows |-> IF g = game_id THEN "active" ELSE rows[g]]
    [] staged = "delete" -> NoRows
    [] OTHER -> rows

\* What the committed statement does to the keyed rows of games:
\* INSERT ... 'starting', UPDATE ... SET status = 'active' WHERE game_id,
\* DELETE ... WHERE game_id.
ApplyStaged(rows, staged, game_id) ==
  CASE staged = "insert" ->
         [g \in DOMAIN rows \cup {game_id} |->
            IF g = game_id THEN "starting" ELSE rows[g]]
    [] staged = "update" ->
         [g \in DOMAIN rows |-> IF g = game_id THEN "active" ELSE rows[g]]
    [] staged = "delete" ->
         [g \in DOMAIN rows \ {game_id} |-> rows[g]]
    [] OTHER -> rows

\* release_db_connection(conn): putconn or close, when conn is not None.
release_db_connection(n, conn) == IF conn THEN n - 1 ELSE n

\* The handler is entered: validation, the UNKNOWN_GAME_ID shortcut of
\* game_cleanup, str(uuid.uuid4()) of game_start_signal.
DbBegin(name, valid, game_id) ==
  /\ db.pc = "idle"
  /\ valid \/ name \in Validated
  /\ game_id \in GameIdInputs(name, valid)
  /\ name = "test_db_insert" => test_rows < MaxTestRows
  /\ name = "create_round_record" => rounds < MaxRounds
  /\ LET d == [DbIdle EXCEPT !.name = name, !.valid = valid,
                             !.game_id = game_id, !.before = games]
     IN IF ~valid
        THEN /\ db_returned' =
                  [DbRespond(d, 400, "error", "validation") EXCEPT !.pc = "done"]
             /\ UNCHANGED <<db, issued>>
        ELSE IF name = "game_cleanup" /\ game_id = UNKNOWN_GAME_ID
        THEN /\ db_returned' =
                  [DbRespond(d, 200, "warning", "skipped") EXCEPT !.pc = "done"]
             /\ UNCHANGED <<db, issued>>
        ELSE /\ db' = [d EXCEPT !.pc = "connect"]
             /\ issued' = IF name = "game_start_signal"
                          THEN issued \cup {game_id} ELSE issued
             /\ db_returned' = DbIdle
  /\ UNCHANGED <<games, test_rows, rounds, held>>
  /\ UNCHANGED gvars

\* What each operation returns when get_db_connection gave None.
NoConnection(d) ==
  CASE d.name = "game_start_signal" -> DbRespond(d, 500, "error", "None")
    [] d.name = "game_status_update" -> DbRespond(d, 500, "error", "False")
    [] d.name = "game_cleanup" -> DbRespond(d, 500, "error", "connection_failed")
    [] d.name = "test_db_connection" -> DbRespond(d, 500, "error", "connection_failed")
    [] d.name = "test_db_insert" -> DbRespond(d, 200, "error", "connection_failed")
    [] d.name = "debug_info" -> DbRespond(d, 200, "info", "not_attempted")
    [] OTHER -> DbRespond(d, 0, "none", "None")

\* get_db_connection(): a connection from the pool or a direct one, or None
\* when the pool, the URL or the server fails. With None the operation
\* returns at once; its finally block has nothing to release.
get_db_connection(ok) ==
  /\ db.pc = "connect"
  /\ IF ok
     THEN /\ db' = [db EXCEPT !.conn = TRUE, !.acquired = @ + 1, !.pc = "execute"]
          /\ held' = held + 1
          /\ db_returned' = DbIdle
     ELSE /\ db' = DbIdle
          /\ held' = held
          /\ db_returned' = [NoConnection(db) EXCEPT !.pc = "done"]
  /\ UNCHANGED <<games, test_rows, rounds, issued>>
  /\ UNCHANGED gvars

\* conn.cursor() and the first cur.execute of the operation; either may
\* raise. "norows" is the INSERT of create_game_record reporting rowcount 0.
DbExecute(outcome) ==
  /\ db.pc = "execute"
  /\ outcome = "norows" => db.name = "game_start_signal"
  /\ db' =
       IF outcome = "raise"
       THEN [db EXCEPT !.cur = TRUE, !.raised = TRUE, !.pc = "except"]
       ELSE CASE db.name = "game_start_signal" ->
                   IF outcome = "norows"
                   THEN [DbRespond(db, 500, "error", "None")
                           EXCEPT !.cur = TRUE, !.pc = "finally"]
                   ELSE [db EXCEPT !.cur = TRUE, !.staged = "insert",
                                   !.rowcount = 1, !.pc = "commit"]
              [] db.name = "game_status_update" ->
                   [db EXCEPT !.cur = TRUE, !.staged = "update",
                              !.rowcount = IF db.game_id \in DOMAIN games
                                           THEN 1 ELSE 0,
                              !.pc = "commit"]
              [] db.name = "game_cleanup" ->
                   IF db.game_id \in DOMAIN games
                   THEN [db EXCEPT !.cur = TRUE, !.found = TRUE, !.pc = "delete"]
                   ELSE [DbRespond(db, 404, "warning", "not_found")
                           EXCEPT !.cur = TRUE, !.pc = "finally"]
              [] db.name = "test_db_connection" ->
                   [DbRespond(db, 200, "success", "columns")
                      EXCEPT !.pc = "finally"]
              [] db.name = "test_db_insert" ->
                   [db EXCEPT !.staged = "test_insert", !.rowcount = 1,
                              !.pc = "commit"]
              [] db.name = "debug_info" ->
                   [DbRespond(db, 200, "info", "success")
                      EXCEPT !.pc = "finally"]
              [] OTHER ->
                   [db EXCEPT !.cur = TRUE, !.staged = "round",
                              !.rowcount = 1, !.pc = "commit"]
  /\ db_returned' = DbIdle
  /\ UNCHANGED <<games, test_rows, rounds, issued, held>>
  /\ UNCHANGED gvars

\* game_cleanup: the DELETE after the SELECT found the game.
DbDelete(outcome) ==
  /\ db.pc = "delete"
  /\ db' = IF outcome = "raise"
           THEN [db EXCEPT !.raised = TRUE, !.pc = "except"]
           ELSE [db EXCEPT !.staged = "delete", !.rowcount = 1, !.pc = "commit"]
  /\ db_returned' = DbIdle
  /\ UNCHANGED <<games, test_rows, rounds, issued, held>>
  /\ UNCHANGED gvars

\* conn.commit() and the return statement that follows it. A commit that
\* raises leaves the tables as they were.
DbCommit(outcome) ==
  /\ db.pc = "commit"
  /\ IF outcome = "raise"
     THEN /\ db' = [db EXCEPT !.staged = "none", !.raised = TRUE, !.pc = "except"]
          /\ UNCHANGED <<games, test_rows, rounds>>
     ELSE /\ games' = ApplyStaged(games, db.staged, db.game_id)
          /\ test_rows' = IF db.staged = "test_insert"
                          THEN test_rows + 1 ELSE test_rows
          /\ rounds' = IF db.staged = "round" THEN rounds + 1 ELSE rounds
          /\ LET d == [db EXCEPT !.staged = "none", !.committed = TRUE,
                                 !.pc = "finally"]
             IN db' =
                  CASE db.name = "game_start_signal" ->
                         DbRespond(d, 200, "success", db.game_id)
                    [] db.name = "game_status_update" ->
                         IF db.rowcount > 0
                         THEN DbRespond(d, 200, "success", "True")
                         ELSE DbRespond(d, 500, "error", "False")
                    [] db.name = "game_cleanup" ->
                         DbRespond(d, 200, "success", "cleaned")
                    [] db.name = "test_db_insert" ->
                         DbRespond(d, 200, "success", "inserted")
                    [] OTHER -> DbRespond(d, 0, "none", "round_id")
  /\ db_returned' = DbIdle
  /\ UNCHANGED <<issued, held>>
  /\ UNCHANGED gvars

\* The except branch of the operation: rollback where the code has one,
\* and the failure value or handle_api_error's response.
DbExcept ==
  /\ db.pc = "except"
  /\ LET d == [db EXCEPT !.staged = "none", !.pc = "finally"]
     IN db' =
          CASE db.name = "game_start_signal" -> DbRespond(d, 500, "error", "None")
            [] db.name = "game_status_update" -> DbRespond(d, 500, "error", "False")
            [] db.name = "game_cleanup" -> DbRespond(d, 500, "error", "internal_error")
            [] db.name = "test_db_connection" -> DbRespond(d, 500, "error", "internal_error")
            [] db.name = "test_db_insert" -> DbRespond(d, 500, "error", "internal_error")
            [] db.name = "debug_info" -> DbRespond(d, 200, "info", "error")
            [] OTHER -> DbRespond(d, 0, "none", "None")
  /\ db_returned' = DbIdle
  /\ UNCHANGED <<games, test_rows, rounds, issued, held>>
  /\ UNCHANGED gvars

\* Faulty variant: the release sits at the end of the try block, a path
\* through the except branch skips it.
DbFinallyLeaking ==
  /\ db.pc = "finally"
  /\ held' = IF db.raised THEN held ELSE release_db_connection(held, db.conn)
  /\ db_returned' =
       [db EXCEPT !.pc = "done", !.cur = FALSE,
                  !.conn = db.raised /\ db.conn,
                  !.released = IF db.conn /\ ~db.raised THEN @ + 1 ELSE @]
  /\ db' = DbIdle
  /\ UNCHANGED <<games, test_rows, rounds, issued>>
  /\ UNCHANGED gvars

\* The finally block: cur.close() where the code has it, then
\* release_db_connection(conn) if conn is set; the operation returns.
DbFinally ==
  /\ db.pc = "finally"
  /\ held' = release_db_connection(held, db.conn)
  /\ db_returned' =
       [db EXCEPT !.pc = "done", !.cur = FALSE, !.conn = FALSE,
                  !.released = IF db.conn THEN @ + 1 ELSE @]
  /\ db' = DbIdle
  /\ UNCHANGED <<games, test_rows, rounds, issued>>
  /\ UNCHANGED gvars

\* The database handlers, one call at a time.
DbNext ==
  \/ \E name \in DbOperations, valid \in BOOLEAN,
        game_id \in Uuids \cup {UNKNOWN_GAME_ID, "none"} :
       DbBegin(name, valid, game_id)
  \/ \E ok \in BOOLEAN : get_db_connection(ok)
  \/ \E outcome \in {"ok", "norows", "raise"} : DbExecute(outcome)
  \/ \E outcome \in {"ok", "raise"} : DbDelete(outcome)
  \/ \E outcome \in {"ok", "raise"} : DbCommit(outcome)
  \/ DbExcept
  \/ DbFinally

DbSpec == Init /\ [][DbNext]_vars


\* ================================================================ claims
Expiry == Ticks(CACHE_EXPIRY_SECONDS)
Limit == Ticks(REQUEST_LIMIT_SECONDS)

\* C1: a round-start dispatch of text t that begins less than 300 seconds
\* after an earlier dispatch of the same t stored its successful completion
\* returns that same text from the cache with status 200 and makes no
\* completion call of its own, so the two dispatches together invoke the
\* completion capability at most once.
C1_RepeatWithinExpiryIsCacheHit ==
  /\ \A t \in Threads :
       thread[t].pc = "throttle" =>
         ~(/\ thread[t].prior.present
           /\ thread[t].began_at - thread[t].prior.timestamp < Expiry)
  /\ ( /\ returned.pc = "done"
       /\ startswith(returned.user_text, ROUND_START_PREFIX)
       /\ returned.prior.present
       /\ returned.began_at - returned.prior.timestamp < Expiry )
     => /\ returned.status = 200
        /\ returned.body = returned.prior.response
        /\ returned.invocations = 0
        /\ returned.prior.invocations + returned.invocations <= 1

\* C1 witness: a repeat served from the cache some time after the store.
C1_Witness ==
  /\ returned.pc = "done"
  /\ returned.path = "cache_hit"
  /\ returned.prior.present
  /\ returned.began_at > returned.prior.timestamp
  /\ returned.body = returned.prior.response
  /\ returned.body # <<>>

\* C2: in a sequential run, two consecutive round-start completion
\* invocations made for different cache keys are at least 1 second apart.
C2_ConsecutiveInvocationsSpaced ==
  [][ ( /\ lastInvoke.valid
        /\ lastInvoke' # lastInvoke
        /\ lastInvoke'.key # lastInvoke.key )
      => lastInvoke'.at - lastInvoke.at >= Limit ]_vars


\* C2 failing run shown as a state: the latest round-start invocation was
\* made by a dispatch that slept, and last_request_time is older than it.
C2_StaleStamp ==
  /\ lastInvoke.valid
  /\ last_request_time < lastInvoke.at
  /\ \A t \in Threads : thread[t].pc \in {"idle", "wait"}

\* A request body whose user_input is a string, and its trimmed text.
StringBody(data) ==
  data.present /\ USER_INPUT \in data.fields /\ data.user_input.type = "str"
Trimmed(th) == strip(th.data.user_input.text)
AllWhitespace(s) == \A i \in 1..Len(s) : s[i] \in Whitespace

\* C3: whenever the completion capability raises during a dispatch, on
\* either path, the dispatch returns "Error communicating with Gemini API"
\* with status 500, whatever the error was, and the step that returns it
\* leaves the response cache as it was: nothing is stored for its key.
C3_GeminiErrorIsFixedTextNoCaching ==
  [][ returned'.gemini_error # "none"
      => /\ returned'.pc = "done"
         /\ returned'.status = 500
         /\ returned'.body = GEMINI_ERROR_TEXT
         /\ returned'.cache_writes = 0
         /\ response_cache' = response_cache ]_vars

\* C3 witness: a failed round-start dispatch whose key has no cache entry.
C3_Witness ==
  /\ returned.pc = "done"
  /\ returned.gemini_error = "ValueError"
  /\ returned.path = "round_start"
  /\ returned.body = GEMINI_ERROR_TEXT
  /\ returned.user_text \notin DOMAIN response_cache

\* C4: an entry 300 seconds old or older is never served: the dispatch that
\* finds it returns only through a completion invocation of its own, and
\* when that succeeds the entry of its key is the new response with the
\* time of the store, later than the replaced entry's timestamp.
C4_ExpiredEntryIsMissAndOverwritten ==
  /\ returned.path = "cache_hit"
       => returned.began_at - returned.cached_response_data.timestamp < Expiry
  /\ \A t \in Threads :
       (thread[t].pc = "throttle" /\ thread[t].cached_response_data.present)
         => thread[t].began_at - thread[t].cached_response_data.timestamp >= Expiry
  /\ (returned.path = "round_start" /\ returned.pc = "done")
       => returned.invocations = 1
  /\ ( /\ returned.path = "round_start"
       /\ returned.status = 200
       /\ returned.replaced.present )
     => /\ now - returned.replaced.timestamp >= Expiry
        /\ response_cache[returned.user_text] = Entry(returned.body, now)
        /\ response_cache[returned.user_text].timestamp
             > returned.replaced.timestamp

\* C4 witness: an expired entry replaced by a different, newer response.
C4_Witness ==
  /\ returned.path = "round_start"
  /\ returned.status = 200
  /\ returned.replaced.present
  /\ returned.replaced.response # returned.body
  /\ response_cache[returned.user_text] = Entry(returned.body, now)

\* The general path: trimmed text that is non-empty, not a filtered
\* greeting and does not start with "Round start initiated".
GeneralText(x) ==
  /\ x # <<>>
  /\ ~(Len(x) < 5 /\ lower(x) \in GREETING_WORDS)
  /\ ~startswith(x, ROUND_START_PREFIX)
IsGeneral(th) == StringBody(th.data) /\ GeneralText(Trimmed(th))

\* C5: a general-path dispatch is only ever at the completion call (never
\* in the cache lookup, the throttle or a sleep, and holding no reading of
\* the clock or the cache), each of its steps leaves response_cache and
\* last_request_time unchanged, and it returns after exactly one
\* completion invocation.
C5_GeneralPathBypassesCacheAndThrottle ==
  [][ /\ \A t \in Threads :
           (InFlight(thread'[t]) /\ IsGeneral(thread'[t]))
             => /\ thread'[t].pc \in {"call", "wait"}
                /\ thread'[t].current_time = 0
                /\ thread'[t].cached_response_data = NoEntry
      /\ ( \/ \E t \in Threads :
                /\ thread'[t] # thread[t]
                /\ IsGeneral(thread[t]) \/ IsGeneral(thread'[t])
           \/ (returned'.pc = "done" /\ IsGeneral(returned')) )
         => /\ response_cache' = response_cache
            /\ last_request_time' = last_request_time
      /\ (returned'.pc = "done" /\ IsGeneral(returned'))
         => /\ returned'.invocations = 1
            /\ returned'.cache_writes = 0
            /\ returned'.cached_response_data = NoEntry ]_vars

\* C5 witness: a general dispatch answered less than a second after the
\* latest round-start invocation, with entries in the cache.
C5_Witness ==
  /\ returned.pc = "done"
  /\ IsGeneral(returned)
  /\ returned.status = 200
  /\ returned.invocations = 1
  /\ lastInvoke.valid
  /\ now - lastInvoke.at < Limit
  /\ DOMAIN response_cache # {}

\* C6: an input that is all whitespace (or the empty string) is answered
\* with the empty string and status 200 by a step that makes no completion
\* call, starts none, and leaves response_cache and last_request_time as
\* they were.
C6_EmptyInputReturnsEmptyNoEffects ==
  [][ ( /\ returned'.pc = "done"
        /\ StringBody(returned'.data)
        /\ AllWhitespace(returned'.data.user_input.text) )
      => /\ returned'.status = 200
         /\ returned'.body = <<>>
         /\ returned'.invocations = 0
         /\ thread' = thread
         /\ response_cache' = response_cache
         /\ last_request_time' = last_request_time ]_vars

\* C6 witness: whitespace answered while the cache and the limiter hold data.
C6_Witness ==
  /\ returned.pc = "done"
  /\ returned.data.user_input.text = <<" ", "\n">>
  /\ returned.status = 200
  /\ returned.body = <<>>
  /\ DOMAIN response_cache # {}
  /\ last_request_time > 0

\* C7: an input whose trimmed text is shorter than 5 characters and in
\* lower case one of "hi", "hello", "hey" is answered "SERAPH: Greetings."
\* with status 200 and without a completion call.
C7_TrivialGreetingIsCanned ==
  /\ \A t \in Threads :
       (InFlight(thread[t]) /\ StringBody(thread[t].data))
         => ~(/\ Len(Trimmed(thread[t])) < 5
              /\ lower(Trimmed(thread[t])) \in GREETING_WORDS)
  /\ ( /\ returned.pc = "done"
       /\ StringBody(returned.data)
       /\ Len(Trimmed(returned)) < 5
       /\ lower(Trimmed(returned)) \in GREETING_WORDS )
     => /\ returned.status = 200
        /\ returned.body = GREETING_REPLY
        /\ returned.invocations = 0

\* C7 witness: "HEY" answered with the canned greeting.
C7_Witness ==
  /\ returned.pc = "done"
  /\ returned.data.user_input.text = <<"H", "E", "Y">>
  /\ returned.body = GREETING_REPLY
  /\ returned.status = 200

\* C8: under any interleaving, a successful round-start completion writes
\* the cache once and no other return writes it; every cache entry is, as
\* a whole, the response and timestamp of the latest write for its key;
\* and what a lookup read is that whole entry.
C8_CacheWritesAndReadsAreWhole ==
  /\ DOMAIN response_cache = DOMAIN committed
  /\ \A k \in DOMAIN response_cache :
       response_cache[k] = Entry(committed[k].response, committed[k].timestamp)
  /\ \A t \in Threads :
       thread[t].pc = "throttle"
         => thread[t].cached_response_data
              = IF thread[t].prior.present
                THEN Entry(thread[t].prior.response, thread[t].prior.timestamp)
                ELSE NoEntry
  /\ returned.path = "cache_hit"
       => returned.cached_response_data
            = Entry(returned.prior.response, returned.prior.timestamp)
  /\ returned.cache_writes
       = IF returned.path = "round_start" /\ returned.status = 200
         THEN 1 ELSE 0

\* C8 witness: a second concurrent dispatch overwrites a fresh entry that
\* another dispatch of the same key stored while it was in flight.
C8_Witness ==
  /\ returned.path = "round_start"
  /\ returned.status = 200
  /\ returned.replaced.present
  /\ now - returned.replaced.timestamp < Expiry
  /\ returned.replaced.response # returned.body
  /\ response_cache[returned.user_text] = Entry(returned.body, now)

NonStringBody(data) ==
  data.present /\ USER_INPUT \in data.fields /\ data.user_input.type # "str"

FreshEntry(k) ==
  /\ k \in DOMAIN response_cache
  /\ now - response_cache[k].timestamp < Expiry

\* C12: a round-start dispatch returns from its lookup exactly when the
\* cache holds an entry for the full trimmed text whose age is strictly
\* below 300 seconds; it then returns the stored value with status 200,
\* makes no completion call, and leaves the cache and last_request_time
\* unchanged. Otherwise (no entry, or an age of 300 seconds or more) it
\* goes on to the throttle.
C12_HitIffEntryYoungerThanExpiry ==
  [][ /\ ( /\ returned'.pc = "done"
           /\ StringBody(returned'.data)
           /\ startswith(Trimmed(returned'), ROUND_START_PREFIX)
           /\ returned'.invocations = 0 )
         => /\ FreshEntry(Trimmed(returned'))
            /\ returned'.status = 200
            /\ returned'.body = response_cache[Trimmed(returned')].response
            /\ thread' = thread
            /\ response_cache' = response_cache
            /\ last_request_time' = last_request_time
      /\ \A t \in Threads :
           (thread[t].pc = "idle" /\ thread'[t].pc = "throttle")
             => /\ thread'[t].user_text = Trimmed(thread'[t])
                /\ ~FreshEntry(thread'[t].user_text)
                /\ response_cache' = response_cache
                /\ last_request_time' = last_request_time ]_vars

\* C12 witness: an entry aged exactly 300 seconds is a miss.
C12_Witness ==
  \E t \in Threads :
    /\ thread[t].pc = "throttle"
    /\ thread[t].cached_response_data.present
    /\ thread[t].began_at - thread[t].cached_response_data.timestamp = Expiry

\* C13 as stated: once a round-start dispatch has invoked the completion
\* capability, last_request_time is the time of that invocation.
C13_TimestampIsLastInvocationTime ==
  /\ \A t \in Threads :
       (thread[t].pc = "wait" /\ RoundStartPath(thread[t]))
         => last_request_time = lastInvoke.at
  /\ (returned.pc = "done" /\ returned.path = "round_start")
       => last_request_time = lastInvoke.at


\* The value of last_request_time a thread read at its throttle check.
ReadStamp(th) == th.current_time - th.time_since_last_request

\* C14: a round-start miss whose elapsed = now - last_request_time is below
\* 1 second sleeps, and its sleep ends exactly 1 - elapsed after it began;
\* with elapsed of 1 second or more it goes on without sleeping; either
\* way its completion invocation is made no earlier than 1 second after
\* the last_request_time value it read.
C14_SleepsExactlyTheRemainder ==
  [][ \A t \in Threads :
        /\ (thread[t].pc = "throttle" /\ thread'[t].pc # "throttle")
             => /\ thread'[t].current_time = now
                /\ thread'[t].time_since_last_request = now - last_request_time
                /\ thread'[t].pc =
                     IF now - last_request_time < Limit THEN "sleep" ELSE "stamp"
        /\ (thread[t].pc = "sleep" /\ thread'[t].pc = "sleep")
             => now' <= thread[t].current_time
                          + (Limit - thread[t].time_since_last_request)
        /\ (thread[t].pc = "sleep" /\ thread'[t].pc # "sleep")
             => /\ thread'[t].pc = "stamp"
                /\ now = thread[t].current_time
                           + (Limit - thread[t].time_since_last_request)
        /\ (thread'[t].pc = "stamp" /\ thread[t].pc # "stamp")
             => thread[t].pc \in {"throttle", "sleep"}
        /\ ( /\ thread[t].pc = "call"
             /\ RoundStartPath(thread[t])
             /\ thread'[t].pc = "wait" )
             => now - ReadStamp(thread[t]) >= Limit ]_vars

\* C14 witness: a dispatch that found half of the second elapsed is about
\* to invoke, exactly one second after the value it read.
C14_Witness ==
  \E t \in Threads :
    /\ thread[t].pc = "call"
    /\ RoundStartPath(thread[t])
    /\ thread[t].time_since_last_request > 0
    /\ thread[t].time_since_last_request < Limit
    /\ now = ReadStamp(thread[t]) + Limit

\* C15: on a round-start miss last_request_time is written exactly once,
\* by the step between the throttle (slept or not) and the completion
\* invocation, and no other step writes it: the outcome of the completion
\* call, a failure included, leaves the written value in place.
C15_TimestampWrittenOnceBeforeInvocation ==
  [][ /\ last_request_time' # last_request_time
           => \E t \in Threads :
                /\ thread[t].pc = "stamp"
                /\ thread'[t].pc = "call"
                /\ thread[t].invocations = 0
      /\ \A t \in Threads :
           /\ (thread[t].pc = "stamp" /\ thread'[t].pc # "stamp")
                => /\ thread'[t].pc = "call"
                   /\ last_request_time' = thread[t].current_time
           /\ RoundStartPath(thread'[t])
                => thread'[t].timestamp_writes
                     = IF thread'[t].pc \in {"call", "wait"} THEN 1 ELSE 0
      /\ (returned'.pc = "done" /\ returned'.path = "round_start")
           => /\ returned'.timestamp_writes = 1
              /\ last_request_time' = last_request_time ]_vars

\* C15 witness: a dispatch that slept and whose completion call then
\* failed has returned; its one write is still in last_request_time.
C15_Witness ==
  /\ returned.pc = "done"
  /\ returned.path = "round_start"
  /\ returned.gemini_error # "none"
  /\ returned.timestamp_writes = 1
  /\ lastInvoke.key = returned.user_text
  /\ last_request_time < lastInvoke.at

\* C16 (as amended): a dispatch that reaches the completion capability has
\* written last_request_time once if its text starts with "Round start
\* initiated", and not at all otherwise.
C16_OnlyRoundStartWritesTimestamp ==
  /\ \A t \in Threads :
       thread[t].pc = "wait"
         => thread[t].timestamp_writes
              = IF startswith(thread[t].user_text, ROUND_START_PREFIX)
                THEN 1 ELSE 0
  /\ (returned.pc = "done" /\ returned.invocations > 0)
       => returned.timestamp_writes
            = IF startswith(returned.user_text, ROUND_START_PREFIX)
              THEN 1 ELSE 0

\* C16 witness: a general dispatch returned from its completion call
\* without a write, while last_request_time holds an earlier write.
C16_Witness ==
  /\ returned.pc = "done"
  /\ returned.path = "general"
  /\ returned.invocations = 1
  /\ returned.timestamp_writes = 0
  /\ last_request_time > 0

\* C16 as stated: every dispatch that reached the completion capability
\* has written last_request_time.
C16_AsStated ==
  (returned.pc = "done" /\ returned.invocations > 0)
    => returned.timestamp_writes > 0


\* A thread that passed its throttle check without sleeping and has not
\* yet written last_request_time.
PassedUnwritten(th) ==
  th.pc = "stamp" /\ th.time_since_last_request >= Limit

\* C17: lines 180-185 are no critical section.  While one round-start
\* dispatch is between its throttle check and its write, or asleep, another
\* can make its own check, and while one is asleep another can write
\* last_request_time; two dispatches that are both past the check without
\* a sleep and before the write have both read a value a second old or
\* older.  The witness shows both races in one run.
C17_ThrottleIsNoCriticalSection ==
  \A t \in Threads : \A u \in Threads \ {t} :
    /\ (thread[t].pc \in {"stamp", "sleep"} /\ thread[u].pc = "throttle")
         => ENABLED ThrottleCheck(u)
    /\ (thread[t].pc = "sleep" /\ thread[u].pc = "stamp")
         => ENABLED Stamp(u)
    /\ (PassedUnwritten(thread[t]) /\ PassedUnwritten(thread[u]))
         => /\ raced
            /\ now - ReadStamp(thread[t]) >= Limit
            /\ now - ReadStamp(thread[u]) >= Limit

\* C17 witness: two dispatches passed the throttle check before either
\* wrote last_request_time, and now a dispatch sleeps for a duration
\* computed from a value that another dispatch has overwritten since.
C17_Witness ==
  /\ raced
  /\ \E t \in Threads :
       /\ thread[t].pc = "sleep"
       /\ ReadStamp(thread[t]) # last_request_time

\* C18: a dispatch never makes a second completion invocation: a thread in
\* flight has invoked once exactly when it waits for the completion, a
\* response reports at most one invocation, and a completion error ends
\* the dispatch with the persona it was sent with.
C18_AtMostOneInvocation ==
  /\ \A t \in Threads :
       /\ thread[t].invocations = IF thread[t].pc = "wait" THEN 1 ELSE 0
       /\ thread[t].gemini_error = "none"
  /\ returned.invocations <= 1
  /\ returned.gemini_error # "none"
       => /\ returned.pc = "done"
          /\ returned.invocations = 1
          /\ returned.current_system_prompt
               = IF returned.path = "round_start"
                 THEN round_start_system_prompt ELSE system_prompt

\* C18 witness: a general dispatch whose one completion call failed.
C18_Witness ==
  /\ returned.pc = "done"
  /\ returned.path = "general"
  /\ returned.gemini_error # "none"
  /\ returned.status = 500
  /\ returned.invocations = 1

\* What a thread sends to the completion capability: the system prompt and
\* the generation configuration of the model it builds.
Persona(th) ==
  [prompt |-> th.current_system_prompt,
   config |-> create_dynamic_gemini_model(th.current_temperature)]
SendsOrSent(th) == th.pc \in {"call", "wait"} \/ th.invocations > 0
PersonaByPrefix(th) ==
  /\ th.user_text = Trimmed(th)
  /\ Persona(th) =
       IF startswith(th.user_text, ROUND_START_PREFIX)
       THEN [prompt |-> round_start_system_prompt,
             config |-> [temperature |-> 25, top_p |-> 95, top_k |-> 40,
                         max_output_tokens |-> 150]]
       ELSE [prompt |-> system_prompt,
             config |-> [temperature |-> 35, top_p |-> 95, top_k |-> 40,
                         max_output_tokens |-> 150]]

\* C19: a text that reaches the completion capability is sent with the
\* round-start prompt and temperature 0.25 if its trimmed form starts with
\* "Round start initiated" in exactly that letter case, and with the
\* general prompt and temperature 0.35 otherwise; the other generation
\* settings are the defaults in both cases.
C19_PersonaIsCaseSensitivePrefix ==
  /\ \A t \in Threads : SendsOrSent(thread[t]) => PersonaByPrefix(thread[t])
  /\ SendsOrSent(returned) => PersonaByPrefix(returned)
  /\ generation_config.temperature = 35

\* C19 witness: the phrase at position 2 was sent with the general persona.
C19_Witness ==
  /\ returned.pc = "done"
  /\ returned.user_text = EmbeddedRoundStart
  /\ returned.invocations = 1
  /\ returned.current_system_prompt = system_prompt
  /\ returned.current_temperature = 35

\* C20: no step removes a cache key, and a step that adds or changes an
\* entry is the return of a round-start dispatch that found no fresh entry
\* and whose one completion call succeeded; the entry is stored under the
\* dispatch's trimmed text and holds the trimmed completion text and the
\* time of the store.
C20_CacheOnlyGrowsByRoundStartSuccess ==
  [][ /\ DOMAIN response_cache \subseteq DOMAIN response_cache'
      /\ \A k \in DOMAIN response_cache' :
           (k \notin DOMAIN response_cache \/ response_cache'[k] # response_cache[k])
             => /\ returned'.pc = "done"
                /\ returned'.path = "round_start"
                /\ returned'.status = 200
                /\ returned'.gemini_error = "none"
                /\ returned'.invocations = 1
                /\ k = returned'.user_text
                /\ k = Trimmed(returned')
                /\ startswith(k, ROUND_START_PREFIX)
                /\ ~FreshEntry(k)
                /\ response_cache'[k].response = returned'.body
                /\ response_cache'[k].timestamp = now
                /\ \E text \in Completions : returned'.body = strip(text) ]_vars

\* C20 witness: two keys in the cache, one of them expired and still there.
C20_Witness ==
  /\ Cardinality(DOMAIN response_cache) = 2
  /\ \E k \in DOMAIN response_cache :
       now - response_cache[k].timestamp >= Expiry


\* C21: a cache hit returns the response last stored under the dispatch's
\* own full trimmed text, and a step changes no cache entry other than the
\* one of the text of the dispatch that returns in it.
C21_KeyIsFullTrimmedText ==
  [][ /\ returned'.path = "cache_hit"
           => /\ Trimmed(returned') \in DOMAIN committed
              /\ returned'.body = committed[Trimmed(returned')].response
              /\ returned'.cached_response_data
                   = response_cache[Trimmed(returned')]
      /\ \A k \in DOMAIN response_cache :
           k # returned'.user_text
             => /\ k \in DOMAIN response_cache'
                /\ response_cache'[k] = response_cache[k] ]_vars

\* C21 witness: "Round start initiated 2" is served its own cached
\* response while "Round start initiated" holds a different one.
C21_Witness ==
  /\ returned.path = "cache_hit"
  /\ returned.user_text = RoundStartText2
  /\ RoundStartText \in DOMAIN response_cache
  /\ response_cache[RoundStartText].response # returned.body
  /\ response_cache[RoundStartText2].response = returned.body

\* A body that is None or empty, or an object without user_input.
BadBody(data) ==
  ~data.present \/ data.fields = {} \/ USER_INPUT \notin data.fields

SaysHello(th) ==
  StringBody(th.data) /\ lower(Trimmed(th)) = <<"h", "e", "l", "l", "o">>

\* C27: a text that trims to "hello" in any letter case goes to the
\* completion capability with the general persona and is answered after
\* one invocation; the canned greeting is only ever returned for "hi" and
\* "hey" in any letter case.
C27_HelloIsNotFiltered ==
  /\ \A t \in Threads :
       (InFlight(thread[t]) /\ SaysHello(thread[t]))
         => /\ thread[t].pc \in {"call", "wait"}
            /\ thread[t].current_system_prompt = system_prompt
  /\ (returned.pc = "done" /\ SaysHello(returned))
       => /\ returned.invocations = 1
          /\ returned.current_system_prompt = system_prompt
          /\ returned.timestamp_writes = 0
          /\ returned.cache_writes = 0
  /\ ( /\ returned.pc = "done"
       /\ StringBody(returned.data)
       /\ returned.invocations = 0
       /\ returned.body = GREETING_REPLY )
     => lower(Trimmed(returned)) \in { <<"h", "i">>, <<"h", "e", "y">> }

\* C27 witness: " HELLO" answered by the completion capability.
C27_Witness ==
  /\ returned.pc = "done"
  /\ returned.data.user_input.text = <<" ", "H", "E", "L", "L", "O">>
  /\ returned.invocations = 1
  /\ returned.status = 200

\* C28 (as amended): a round-start dispatch goes without a completion
\* invocation exactly when its own lookup finds an entry for its text
\* stored less than 300 seconds before; every dispatch that finds none
\* makes one invocation of its own, also when another dispatch of the same
\* text is asleep in the throttle or waiting for its completion.
C28_InvocationUnlessEntryAlreadyStored ==
  /\ \A t \in Threads :
       /\ thread[t].pc = "throttle"
            => ~( /\ thread[t].prior.present
                  /\ thread[t].began_at - thread[t].prior.timestamp < Expiry )
       /\ (RoundStartPath(thread[t]) /\ thread[t].pc = "wait")
            => thread[t].invocations = 1
  /\ returned.path = "cache_hit"
       => /\ returned.prior.present
          /\ returned.began_at - returned.prior.timestamp < Expiry
          /\ returned.invocations = 0
  /\ (returned.pc = "done" /\ returned.path = "round_start")
       => returned.invocations = 1

\* C28 witness: two dispatches of one text both wait for a completion.
C28_Witness ==
  \E t \in Threads : \E u \in Threads \ {t} :
    /\ thread[t].pc = "wait"
    /\ thread[u].pc = "wait"
    /\ thread[t].user_text = RoundStartText
    /\ thread[u].user_text = RoundStartText
    /\ lastInvoke.key = RoundStartText

\* C28 as stated: no two dispatches of the same round-start text have
\* both invoked the completion capability.
C28_AsStated ==
  \A t \in Threads : \A u \in Threads \ {t} :
    ~( /\ RoundStartPath(thread[t]) /\ thread[t].invocations = 1
       /\ RoundStartPath(thread[u]) /\ thread[u].invocations = 1
       /\ thread[t].user_text = thread[u].user_text )

C30_FailureLeavesCacheAlone ==
  [][ returned'.gemini_error # "none"
        => /\ response_cache' = response_cache
           /\ DOMAIN response_cache' = DOMAIN committed'
           /\ returned'.path = "round_start"
                => /\ ~CacheHit(get(response_cache', returned'.user_text), now')
                   /\ returned'.user_text \in DOMAIN response_cache
                        => /\ response_cache'[returned'.user_text].timestamp
                                = committed[returned'.user_text].timestamp
                           /\ now' - response_cache'[returned'.user_text].timestamp
                                >= Expiry ]_vars

\* C30 witness: a failed dispatch whose text has an expired entry.
C30_Witness ==
  /\ returned.pc = "done"
  /\ returned.gemini_error # "none"
  /\ returned.path = "round_start"
  /\ returned.user_text \in DOMAIN response_cache
  /\ now - response_cache[returned.user_text].timestamp >= Expiry


\* A game_cleanup request carrying game_id has returned in this step.
CleanupReturns ==
  /\ db_returned'.pc = "done"
  /\ db_returned'.name = "game_cleanup"
  /\ db_returned'.valid

\* The rows of games as they were when the returning operation began,
\* without the row of its game_id.
WithoutGame(r) == [g \in DOMAIN r.before \ {r.game_id} |-> r.before[g]]

\* The outcomes of game_cleanup in which no database call raises: the
\* UNKNOWN_GAME_ID skip, the 404, the delete, the failed connection.
ListedOutcome(r, rows) ==
  \/ /\ r.game_id = UNKNOWN_GAME_ID
     /\ r.status = 200 /\ r.kind = "warning"
     /\ r.acquired = 0
     /\ rows = r.before
  \/ /\ r.game_id \notin DOMAIN r.before
     /\ r.acquired = 1 /\ ~r.found
     /\ r.status = 404
     /\ rows = r.before
  \/ /\ r.game_id \in DOMAIN r.before
     /\ r.status = 200 /\ r.kind = "success"
     /\ r.committed
     /\ rows = WithoutGame(r)
  \/ /\ r.game_id # UNKNOWN_GAME_ID
     /\ r.acquired = 0
     /\ r.status = 500 /\ r.value = "connection_failed"
     /\ rows = r.before

\* C24 (as amended): a game_cleanup request carrying game_id ends in one of
\* five ways: "UNKNOWN_GAME_ID" gives 200 with a warning and no connection
\* is obtained; no matching game gives 404 with nothing deleted; an
\* existing game has exactly its record deleted and committed, with 200; a
\* failed connection gives 500 with nothing deleted; a database error
\* raised by the select, the delete or the commit gives 500 "Internal
\* server error" with nothing deleted.
C24_CleanupOutcomes ==
  [][ CleanupReturns
        => \/ ListedOutcome(db_returned', games')
           \/ /\ db_returned'.raised
              /\ db_returned'.acquired = 1
              /\ db_returned'.status = 500
              /\ db_returned'.value = "internal_error"
              /\ games' = db_returned'.before ]_vars

\* C24 witness: the delete or the commit of an existing game's cleanup
\* raised; the game is still there and the answer is 500.
C24_Witness ==
  /\ db_returned.pc = "done"
  /\ db_returned.name = "game_cleanup"
  /\ db_returned.found
  /\ db_returned.raised
  /\ db_returned.status = 500
  /\ db_returned.game_id \in DOMAIN games

\* C24 as stated: every outcome is one of the four listed.
C24_AsStated ==
  [][ CleanupReturns => ListedOutcome(db_returned', games') ]_vars

\* C25: a game record appears only by the commit of game_start_signal's
\* insert, with a game_id not issued before and status 'starting'; its
\* status changes only from 'starting' to 'active', by a successful update
\* of that game_id; an 'active' record stays 'active' until it is deleted;
\* an update of an id with no record returns failure and leaves the table
\* as it was; an update that reports success leaves the record 'active'.
C25_StartingThenActive ==
  [][ /\ \A g \in Uuids :
           /\ (g \notin DOMAIN games /\ g \in DOMAIN games')
                => /\ games'[g] = "starting"
                   /\ db.name = "game_start_signal"
                   /\ db.game_id = g
                   /\ g \notin DOMAIN db.before
           /\ (g \in DOMAIN games /\ g \in DOMAIN games' /\ games'[g] # games[g])
                => /\ games[g] = "starting"
                   /\ games'[g] = "active"
                   /\ db.name = "game_status_update"
                   /\ db.game_id = g
                   /\ db'.value = "True"
           /\ (g \in DOMAIN games /\ g \notin DOMAIN games')
                => db.name = "game_cleanup" /\ db.game_id = g
      /\ (db.pc = "idle" /\ db'.name = "game_start_signal")
           => /\ db'.game_id \notin issued
              /\ db'.game_id \notin DOMAIN games
      /\ ( /\ db_returned'.pc = "done"
           /\ db_returned'.name = "game_status_update"
           /\ db_returned'.valid )
         => /\ db_returned'.game_id \notin DOMAIN db_returned'.before
                 => /\ db_returned'.value = "False"
                    /\ db_returned'.status = 500
                    /\ games' = db_returned'.before
            /\ db_returned'.value = "True"
                 => /\ db_returned'.game_id \in DOMAIN games'
                    /\ games'[db_returned'.game_id] = "active" ]_vars

\* C25 witness: an update of a game_id that was issued and has no record
\* fails while another game is 'active'.
C25_Witness ==
  /\ db_returned.pc = "done"
  /\ db_returned.name = "game_status_update"
  /\ db_returned.game_id \in issued \ DOMAIN games
  /\ db_returned.acquired = 1
  /\ ~db_returned.raised
  /\ db_returned.value = "False"
  /\ \E g \in DOMAIN games : games[g] = "active"

\* C26: an operation holds a connection exactly from get_db_connection to
\* its finally block; when it returns it has released each connection it
\* obtained once, and with no operation in flight no connection is held.
C26_ConnectionsReleasedOnce ==
  /\ held = IF db.conn THEN 1 ELSE 0
  /\ db.released = 0
  /\ db.acquired = IF db.conn THEN 1 ELSE 0
  /\ db.pc = "idle" => held = 0
  /\ db_returned.pc = "done"
       => /\ db_returned.released = db_returned.acquired
          /\ db_returned.acquired <= 1
          /\ ~db_returned.conn
          /\ held = 0

\* C26 witness: test_db_insert returned through its except branch and the
\* connection is back.
C26_Witness ==
  /\ db_returned.pc = "done"
  /\ db_returned.name = "test_db_insert"
  /\ db_returned.raised
  /\ db_returned.acquired = 1
  /\ db_returned.released = 1
  /\ held = 0


\* ------------------------------------------------------------ termination
\* Requests arrive during the first Window ticks; after them the clock is
\* observed at the instants at which a sleep ends.
WakeInstants ==
  { WakeAt(thread[t]) : t \in { u \in Threads : thread[u].pc = "sleep" } }
LiveBegin(t, data) == now <= Boot + Window /\ Begin(t, data)
\* The request bodies of these runs: a rejected one, a round start, a
\* general message.
LiveBodies ==
  { NullBody,
    InputObject(StrValue(RoundStartText)),
    InputObject(StrValue(TestMessage)) }

\* The wall clock moves on whatever the threads are doing; only the end of
\* a sleep is not passed while its thread sleeps on.
Tick(instant) ==
  /\ \A t \in Threads : thread[t].pc = "sleep" => instant <= WakeAt(thread[t])
  /\ instant > now
  /\ now' = instant
  /\ returned' = IdleThread
  /\ UNCHANGED <<last_request_time, response_cache, thread, committed, lastInvoke, raced>>
  /\ UNCHANGED dbvars

LiveNext ==
  \/ \E t \in Threads, data \in LiveBodies : LiveBegin(t, data)
  \/ \E t \in Threads : Step(t)
  \/ \E instant \in NearInstants \cup WakeInstants : Tick(instant)

\* A request thread that can run does run, a completion call that was sent
\* returns or raises, and the clock moves on.
LiveSpec ==
  /\ Init
  /\ [][LiveNext]_vars
  /\ \A t \in Threads : WF_vars(Step(t))
  /\ WF_vars(\E instant \in NearInstants \cup WakeInstants : Tick(instant))

\* The position of a thread in the handler's flow.
Rank(pc) ==
  CASE pc = "throttle" -> 1
    [] pc = "sleep" -> 2
    [] pc = "stamp" -> 3
    [] pc = "call" -> 4
    [] pc = "wait" -> 5
    [] OTHER -> 0

\* C22: every dispatch in flight returns a response; on the way it only
\* moves forward through the handler, and the one sleep it may make is
\* over no more than REQUEST_LIMIT_SECONDS after its throttle check.
C22_EveryDispatchReturns ==
  /\ \A t \in Threads : InFlight(thread[t]) ~> ~InFlight(thread[t])
  /\ [][ \A t \in Threads :
           /\ (InFlight(thread[t]) /\ ~InFlight(thread'[t]))
                => returned'.pc = "done"
           /\ (InFlight(thread[t]) /\ InFlight(thread'[t])
                 /\ thread'[t] # thread[t])
                => Rank(thread'[t].pc) > Rank(thread[t].pc)
           /\ (thread[t].pc = "sleep" /\ thread'[t].pc # "sleep")
                => /\ thread'[t].pc = "stamp"
                   /\ now - thread[t].current_time \in 1..Limit ]_vars

\* C22 witness: a round-start dispatch that arrived at the last instant
\* and slept a whole second has returned.
C22_Witness ==
  /\ returned.pc = "done"
  /\ returned.path = "round_start"
  /\ returned.invocations = 1
  /\ last_request_time = Boot + Window
  /\ lastInvoke.at = Boot + Window + Limit
  /\ now = Boot + Window + Limit

====
